---- MODULE Spec2Model ----
(***************************************************************************)
(* Model of salesforce.Connection (src/salesforce.py): the token refresh,  *)
(* the retrying GET wrapper, the single-object and recent-records queries  *)
(* and the create/update writes.  The remote API is the environment: each  *)
(* HTTP request is answered by a nondeterministic choice among the         *)
(* outcomes the requests library can deliver to the code.                  *)
(***************************************************************************)
EXTENDS Integers, Sequences, FiniteSets, TLC

VARIABLES
    constructed,    \* TRUE once __init__ has completed without raising
    credentials,    \* self.credentials
    instance_url,   \* self.instance_url
    api_version,    \* self.api_version
    obj_endpoint,   \* self.obj_endpoint
    access_token,   \* self.access_token
    start_date,     \* self.start_date
    end_date,       \* self.end_date
    op,             \* the method entered last
    running,        \* TRUE while that method has not returned or raised
    url,            \* local url of the running method / of get_or_retry
    n,              \* loop index n of the running retry loop
    wait,           \* local wait of the running retry loop
    counter,        \* local counter of get_or_retry
    contacts,       \* local contacts of query_recent_records
    result,         \* how the last finished method ended (value or exception)
    gets,           \* requests made by the retry loop entered last, with their outcomes
    refreshes,      \* token refreshes made by that loop (or by __init__)
    sleeps,         \* arguments of time.sleep in that loop
    stderr,         \* what that loop wrote to sys.stderr
    served,         \* pages the server has answered in this query_recent_records
    date            \* argument of the latest _format_date call

fieldVars == <<credentials, instance_url, api_version, obj_endpoint, start_date, end_date>>
vars == <<constructed, credentials, instance_url, api_version, obj_endpoint,
          access_token, start_date, end_date,
          op, running, url, n, wait, counter, contacts, result,
          gets, refreshes, sleeps, stderr, served, date>>

----------------------------------------------------------------------------
(* Bounds of the model *)

MaxPages == 2          \* pages the server chains through nextRecordsUrl
MaxTokens == 2         \* distinct tokens the auth server hands out

(* Program constants *)

max_retries == 3
wait0 == 10
counter0 == 1
MassUpdateLimit == 25000

----------------------------------------------------------------------------
(* Values *)

None == [kind |-> "None"]
Json(b) == [kind |-> "json", body |-> b]
List(s) == [kind |-> "list", items |-> s]
Bool(b) == [kind |-> "bool", val |-> b]
Raised(e) == [kind |-> "raise", exc |-> e]
NoResult == [kind |-> "none"]

\* A list of ids is a sequence of runs: [lo |-> a, hi |-> b] stands for the ids
\* a, a+1, ..., b in that order.  Appending lists is appending their runs.
Ids(lo, hi) == IF hi < lo THEN <<>> ELSE <<[lo |-> lo, hi |-> hi]>>

\* len() of a list of ids
RECURSIVE len(_)
len(ids) == IF ids = <<>> THEN 0 ELSE (Head(ids).hi - Head(ids).lo + 1) + len(Tail(ids))

\* Python truthiness of what get_or_retry returns: None and {} are falsy
Truthy(v) == v.kind = "json" /\ DOMAIN v.body # {}

Token(i) == <<"T", i>>
ServerTokens == { Token(i) : i \in 1..MaxTokens }

\* "Bearer {}".format(self.access_token)
Bearer(tok) == <<"Bearer ">> \o tok

----------------------------------------------------------------------------
(* Strings are sequences of chunks, so that concatenation, splitting and   *)
(* percent-encoding are computed and not assumed.                          *)

Schemes == {"https://", "http://"}
Hosts == {"www.test_domain.com"}

\* What requests makes of a URL before anything is sent: a URL without a
\* scheme raises MissingSchema, one with a scheme and no host InvalidURL.
UrlForm(u) ==
    IF u = <<>> \/ Head(u) \notin Schemes THEN "MissingSchema"
    ELSE IF Len(u) < 2 \/ u[2] \notin Hosts THEN "InvalidURL"
    ELSE "ok"

Domains == { <<"https://", "www.test_domain.com">>,
             <<"www.test_domain.com">>,
             <<"https://">> }

CredentialsSet ==
    { [domain |-> d, access_token |-> Token(0), client_id |-> "consumer_key",
       client_secret |-> "consumer_secret", user_key |-> "user_name",
       refresh_token |-> <<"password">>] : d \in Domains }

\* datetime.isoformat(): the fraction is printed only when it is not zero
isoformat(t) ==
    <<t.day, "T", t.hh, ":", t.mm, ":", t.ss>>
        \o (IF t.us = "000000" THEN <<>> ELSE <<".", t.us>>)

Days == <<"2016-01-01", "2016-01-02", "2016-01-03">>

\* variant: the window is empty, both ends are now
MinusNoDay(t) == t

\* now - datetime.timedelta(days=1)
MinusOneDay(t) == [t EXCEPT !.day = t.day - 1]

IsoOf(t) == isoformat([t EXCEPT !.day = Days[t.day]])

Nows == { [day |-> 2, hh |-> "03", mm |-> "04", ss |-> "05", us |-> "000000"],
          [day |-> 3, hh |-> "04", mm |-> "05", ss |-> "06", us |-> "123456"] }

\* date.split('.', 1)[0]
RECURSIVE BeforeDot(_)
BeforeDot(s) ==
    IF s = <<>> \/ Head(s) = "." THEN <<>> ELSE <<Head(s)>> \o BeforeDot(Tail(s))

\* variant: the timestamp is not escaped
quote_plus_raw(s) == s

\* urllib.quote_plus on the characters a timestamp has: only ':' is escaped
quote_plus(s) == [i \in 1..Len(s) |-> IF s[i] = ":" THEN "%3A" ELSE s[i]]

\* _format_date(date): cut at the first '.', escape, append 'Z'
_format_date(d) == quote_plus(BeforeDot(d)) \o <<"Z">>

----------------------------------------------------------------------------
(* The state when __init__ has stored its arguments (lines 22-27) and has  *)
(* not yet refreshed the token.                                            *)

Init ==
    /\ constructed = FALSE
    /\ credentials \in CredentialsSet
    /\ instance_url = credentials.domain
    /\ access_token = credentials.access_token
    /\ api_version = "1.0"
    /\ obj_endpoint = "obj_endpoint"
    /\ start_date = <<>>
    /\ end_date = <<>>
    /\ op = "none"
    /\ running = FALSE
    /\ url = <<>>
    /\ n = 0
    /\ wait = wait0
    /\ counter = counter0
    /\ contacts = <<>>
    /\ result = NoResult
    /\ gets = <<>>
    /\ refreshes = <<>>
    /\ sleeps = <<>>
    /\ stderr = <<>>
    /\ served = <<>>
    /\ date = <<>>

----------------------------------------------------------------------------
(* _refresh_token *)

\* What the auth endpoint can answer: a body with access_token, or one without
RefreshAnswers ==
    { [access_token |-> t] : t \in ServerTokens } \cup { [error |-> "error message"] }

\* variant: the token the Connection was built with is sent every time
PasswordOriginal == credentials.refresh_token \o credentials.access_token

\* the password field of the payload
Password == credentials.refresh_token \o access_token

\* r.json()['access_token'] finds its key
RefreshSucceeds(ans) == "access_token" \in DOMAIN ans

\* variant: the answer is parsed and the field never assigned
RefreshedTokenStale(ans) == access_token

\* variant: a missing key stores an empty token instead of raising first
RefreshedTokenCleared(ans) == IF RefreshSucceeds(ans) THEN ans.access_token ELSE <<>>

\* self.access_token after the call
RefreshedToken(ans) == IF RefreshSucceeds(ans) THEN ans.access_token ELSE access_token

\* the record of one call of _refresh_token
RefreshEntry(ans) ==
    [password |-> Password, answer |-> ans, before |-> access_token,
     after |-> RefreshedToken(ans)]

----------------------------------------------------------------------------
(* __init__ *)

_get_date_range(now) ==
    /\ start_date' = _format_date(IsoOf(MinusOneDay(now)))
    /\ end_date' = _format_date(IsoOf(now))
    /\ date' = IsoOf(now)

Construct ==
    /\ ~constructed
    /\ ~running
    /\ op' = "__init__"
    /\ \E ans \in RefreshAnswers, now \in Nows :
        /\ refreshes' = <<RefreshEntry(ans)>>
        /\ access_token' = RefreshedToken(ans)
        /\ IF RefreshSucceeds(ans)
           THEN /\ _get_date_range(now)
                /\ constructed' = TRUE
                /\ result' = [kind |-> "object"]
           ELSE /\ UNCHANGED <<start_date, end_date, date, constructed>>
                /\ result' = Raised("KeyError")
    /\ gets' = <<>>
    /\ sleeps' = <<>>
    /\ stderr' = <<>>
    /\ UNCHANGED <<credentials, instance_url, api_version, obj_endpoint,
                   running, url, n, wait, counter, contacts, served>>

----------------------------------------------------------------------------
(* Plumbing shared by the retry loops.  F is the frame [n, wait, counter]  *)
(* a handler leaves behind, L the requests, refreshes, sleeps and stderr   *)
(* writes of the loop so far.                                              *)

Frame == [n |-> n, wait |-> wait, counter |-> counter]
Logs == [gets |-> gets, refreshes |-> refreshes, sleeps |-> sleeps, stderr |-> stderr]
NoLogs == [gets |-> <<>>, refreshes |-> <<>>, sleeps |-> <<>>, stderr |-> <<>>]

SetFrame(F) == n' = F.n /\ wait' = F.wait /\ counter' = F.counter
SetLogs(L) ==
    /\ gets' = L.gets
    /\ refreshes' = L.refreshes
    /\ sleeps' = L.sleeps
    /\ stderr' = L.stderr

\* variant: the header is built once, from the token the call started with
AuthHeaderStale == Bearer(IF refreshes = <<>> THEN access_token ELSE refreshes[1].before)

\* headers={"Authorization": "Bearer {}".format(self.access_token)}
AuthHeader == Bearer(access_token)

\* one call of requests.get / post / patch and how it ended
Request(method, outcome, body) ==
    [method |-> method, url |-> url, auth |-> AuthHeader, outcome |-> outcome,
     body |-> body]

Requested(L, method, outcome, body) ==
    [L EXCEPT !.gets = Append(L.gets, Request(method, outcome, body))]

\* the locals of a retry loop at its entry
FreshFrame == [n |-> 0, wait |-> wait0, counter |-> counter0]

\* the running public method ends with res
Finish(res, F, L) ==
    /\ running' = FALSE
    /\ op' = op
    /\ result' = res
    /\ SetFrame(F)
    /\ SetLogs(L)

\* variant: the retry locals live on the Connection and are never reset
EnterLoopKeep(u) ==
    /\ url' = u
    /\ SetFrame(Frame)
    /\ SetLogs(NoLogs)

\* a retry loop on u is entered: the locals of lines 127-129 (72-73, 93-94)
EnterLoop(u) ==
    /\ url' = u
    /\ SetFrame(FreshFrame)
    /\ SetLogs(NoLogs)

----------------------------------------------------------------------------
(* query_recent_records: what the loop body does with a response *)

\* variant: each page is put in front of the ids collected so far
ExtendPrepend(c, ids) == ids \o c

\* variant: the limit is looked at after each id, the rest of the page is dropped
ExtendUntilOver(c, ids) ==
    IF len(c) + len(ids) > MassUpdateLimit
    THEN c \o Ids(Head(ids).lo, Head(ids).lo + (MassUpdateLimit - len(c)))
    ELSE c \o ids

\* for i, salesforce_id in enumerate(response['ids']): contacts.append(salesforce_id)
Extend(c, ids) == c \o ids

\* variant: the limit itself already aborts
MassUpdateAtLimit(c) == len(c) >= MassUpdateLimit

MassUpdate(c) == len(c) > MassUpdateLimit

RecentPage(v, F, L) ==
    IF Truthy(v)
    THEN LET c == Extend(contacts, v.body.ids) IN
         /\ contacts' = c
         /\ IF MassUpdate(c)
            THEN Finish(Raised("MassUpdateException"), F, L) /\ UNCHANGED url
            ELSE IF "nextRecordsUrl" \in DOMAIN v.body
            THEN EnterLoop(v.body.nextRecordsUrl) /\ UNCHANGED <<op, running, result>>
            ELSE Finish(List(c), F, L) /\ UNCHANGED url
    ELSE /\ EnterLoop(url)
         /\ UNCHANGED <<op, running, result, contacts>>

\* variant: any non-empty response is handed back
SingleObjectAny(v) == IF Truthy(v) THEN v ELSE None

\* query_single_object: the record only when it has an Id
SingleObject(v) == IF Truthy(v) /\ "Id" \in DOMAIN v.body THEN v ELSE None

\* get_or_retry returns v to the method that called it
GetReturns(v, F, L) ==
    CASE op = "get_or_retry" ->
            Finish(v, F, L) /\ UNCHANGED <<url, contacts>>
      [] op = "query_single_object" ->
            Finish(SingleObject(v), F, L) /\ UNCHANGED <<url, contacts>>
      [] op = "query_recent_records" ->
            RecentPage(v, F, L)

\* an exception leaves get_or_retry; no caller catches anything
GetRaises(e, F, L) == Finish(Raised(e), F, L) /\ UNCHANGED <<url, contacts>>

\* variant: the loop makes one pass more
NextAttemptExtra(F, L) ==
    IF F.n + 1 <= max_retries
    THEN /\ SetFrame([F EXCEPT !.n = F.n + 1])
         /\ SetLogs(L)
         /\ UNCHANGED <<op, running, result, url, contacts>>
    ELSE GetReturns(None, F, L)

\* end of one pass through the for loop of get_or_retry without return or raise
NextAttempt(F, L) ==
    IF F.n + 1 < max_retries
    THEN /\ SetFrame([F EXCEPT !.n = F.n + 1])
         /\ SetLogs(L)
         /\ UNCHANGED <<op, running, result, url, contacts>>
    ELSE GetReturns(None, F, L)

----------------------------------------------------------------------------
(* The public methods are entered on a constructed Connection *)

ObjectPath == <<"/services/data/v", api_version, "/sobjects/", obj_endpoint, "/">>

RecentUrl ==
    instance_url \o <<"/services/data/v", api_version, "/sobjects/", obj_endpoint,
                      "/updated/?start=">> \o start_date \o <<"&end=">> \o end_date

SalesforceIds == {"1234", "5678"}

Enter(name, u) ==
    /\ constructed
    /\ ~running
    /\ op' = name
    /\ running' = TRUE
    /\ EnterLoop(u)
    /\ contacts' = <<>>
    /\ served' = <<>>
    /\ result' = NoResult
    /\ UNCHANGED <<constructed, access_token, fieldVars, date>>

CallGetOrRetry == \E u \in Domains : Enter("get_or_retry", u)

CallQuerySingleObject ==
    \E id \in SalesforceIds : Enter("query_single_object", instance_url \o ObjectPath \o <<id>>)

CallQueryRecentRecords == Enter("query_recent_records", RecentUrl)

CallCreateSfRecord == Enter("create_sf_record", instance_url \o ObjectPath)

CallUpdateSfRecord ==
    \E id \in SalesforceIds : Enter("update_sf_record", instance_url \o ObjectPath \o <<id>>)

GetOps == {"get_or_retry", "query_single_object", "query_recent_records"}
WriteOps == {"create_sf_record", "update_sf_record"}

----------------------------------------------------------------------------
(* What the API answers with status 200 *)

EmptyBody == [k \in {} |-> k]

ObjectBodyKinds == {"record", "error", "empty"}

ObjectBody(kind) ==
    CASE kind = "record" -> [Id |-> "1234", data |-> "value1"]
      [] kind = "error" -> [error |-> "no such record"]
      [] kind = "empty" -> EmptyBody

PageSizes == {0, 1, 2, MassUpdateLimit - 2, MassUpdateLimit - 1, MassUpdateLimit,
              MassUpdateLimit + 1}

\* the ids of the k-th page of the chain: no id occurs twice in a chain
PageIds(k, size) ==
    LET base == (k - 1) * (MassUpdateLimit + 2) IN Ids(base + 1, base + size)

NextKinds == {"absent", "absolute", "relative"}

NextUrl(kind, k) ==
    IF kind = "absolute"
    THEN <<"https://", "www.test_domain.com", "/nextRecordsUrl", ToString(k)>>
    ELSE <<"/nextRecordsUrl", ToString(k)>>

PageBody(k, size, nx) ==
    IF nx = "absent"
    THEN [ids |-> PageIds(k, size)]
    ELSE [ids |-> PageIds(k, size), nextRecordsUrl |-> NextUrl(nx, k + 1)]

----------------------------------------------------------------------------
(* get_or_retry: one pass through the for loop per action, by outcome *)

InGet == running /\ op \in GetOps

\* requests.get returns 200: return response.json()
GetOk ==
    /\ InGet
    /\ UrlForm(url) = "ok"
    /\ IF op = "query_recent_records"
       THEN \/ \E size \in PageSizes, nx \in NextKinds :
                 LET v == Json(PageBody(Len(served) + 1, size, nx)) IN
                 /\ nx # "absent" => Len(served) + 1 < MaxPages
                 /\ served' = Append(served, [url |-> url, size |-> size, next |-> nx])
                 /\ GetReturns(v, Frame, Requested(Logs, "GET", "200", v))
            \/ /\ served' = served
               /\ GetReturns(Json(EmptyBody), Frame,
                             Requested(Logs, "GET", "200", Json(EmptyBody)))
       ELSE /\ served' = served
            /\ \E kind \in ObjectBodyKinds :
                 LET v == Json(ObjectBody(kind)) IN
                 GetReturns(v, Frame, Requested(Logs, "GET", "200", v))
    /\ UNCHANGED <<constructed, access_token, fieldVars, date>>

\* variant: the bound of the loop is missed by one
GetLastAttemptOffByOne(k) == k = max_retries

\* if n == max_retries - 1
GetLastAttempt(k) == k = max_retries - 1

\* variant: the wait is multiplied, as in the write methods
GetBackoffMultiply(w, c) == w * c

\* wait = wait ** counter
GetBackoff(w, c) == w ^ c

\* except Timeout: re-raise on the last attempt, else back off and go on
GetTimeout ==
    /\ InGet
    /\ UrlForm(url) = "ok"
    /\ LET L == Requested(Logs, "GET", "Timeout", None) IN
       IF GetLastAttempt(n)
       THEN GetRaises("Timeout", Frame, L)
       ELSE LET w == GetBackoff(wait, counter) IN
            NextAttempt([n |-> n, wait |-> w, counter |-> counter + 1],
                        [L EXCEPT !.sleeps = Append(sleeps, w)])
    /\ UNCHANGED <<constructed, access_token, fieldVars, served, date>>

\* variant: the handler falls through to the next pass of the loop
GetMissingSchemaRetry ==
    /\ InGet
    /\ UrlForm(url) = "MissingSchema"
    /\ NextAttempt(Frame, Requested(Logs, "GET", "MissingSchema", None))
    /\ UNCHANGED <<constructed, access_token, fieldVars, served, date>>

\* except MissingSchema: return None
GetMissingSchema ==
    /\ InGet
    /\ UrlForm(url) = "MissingSchema"
    /\ GetReturns(None, Frame, Requested(Logs, "GET", "MissingSchema", None))
    /\ UNCHANGED <<constructed, access_token, fieldVars, served, date>>

\* requests.get raises what no except clause names
GetInvalidURL ==
    /\ InGet
    /\ UrlForm(url) = "InvalidURL"
    /\ GetRaises("InvalidURL", Frame, Requested(Logs, "GET", "InvalidURL", None))
    /\ UNCHANGED <<constructed, access_token, fieldVars, served, date>>

\* variant: the lookup failure is swallowed and the loop goes on
After401Swallow(ans, F, L) == NextAttempt(F, L)

\* the 401 branch once _refresh_token has run: a KeyError leaves the loop
After401(ans, F, L) ==
    IF RefreshSucceeds(ans) THEN NextAttempt(F, L) ELSE GetRaises("KeyError", F, L)

\* except HTTPError with status 401: refresh the token
Get401 ==
    /\ InGet
    /\ UrlForm(url) = "ok"
    /\ \E ans \in RefreshAnswers :
        /\ access_token' = RefreshedToken(ans)
        /\ After401(ans, Frame,
                    [Requested(Logs, "GET", "401", None)
                        EXCEPT !.refreshes = Append(refreshes, RefreshEntry(ans))])
    /\ UNCHANGED <<constructed, fieldVars, served, date>>

\* How the body of an error response decodes: sys.stderr.write takes a string
\* and nothing else, and response.json() raises on a body that is not JSON.
ErrorBodyKinds == {"json_string", "json_object", "not_json"}
ErrorStatuses == {"404", "500"}

\* sys.stderr.write(response.json()); raise e
StderrWrite(kind) ==
    CASE kind = "json_string" -> "HTTPError"
      [] kind = "json_object" -> "TypeError"
      [] kind = "not_json" -> "ValueError"

\* except HTTPError with another status: write the body, re-raise
GetHTTPError ==
    /\ InGet
    /\ UrlForm(url) = "ok"
    /\ \E status \in ErrorStatuses, kind \in ErrorBodyKinds :
        LET L == Requested(Logs, "GET", status, [kind |-> kind])
            raised == StderrWrite(kind) IN
        GetRaises(raised, Frame,
                  IF raised = "HTTPError"
                  THEN [L EXCEPT !.stderr = Append(stderr, [kind |-> kind])]
                  ELSE L)
    /\ UNCHANGED <<constructed, access_token, fieldVars, served, date>>

----------------------------------------------------------------------------
(* create_sf_record and update_sf_record: one pass through the loop per action *)

InWrite == running /\ op \in WriteOps

Method == IF op = "create_sf_record" THEN "POST" ELSE "PATCH"

WriteStatuses == {"401", "404", "500"}

\* answers with status 200 to a create
CreateBodyKinds == {"created", "refused", "no_flag"}

CreateBody(kind) ==
    CASE kind = "created" -> [success |-> TRUE]
      [] kind = "refused" -> [success |-> FALSE]
      [] kind = "no_flag" -> [error |-> "error message"]

\* return response.json()['success']
CreateResult(body) ==
    IF "success" \in DOMAIN body THEN Bool(body.success) ELSE Raised("KeyError")

WriteEnds(res, F, L) == Finish(res, F, L) /\ UNCHANGED <<url, contacts>>

\* end of one pass through the for loop of a write without return or raise
NextWrite(F, L) ==
    IF F.n + 1 < max_retries
    THEN /\ SetFrame([F EXCEPT !.n = F.n + 1])
         /\ SetLogs(L)
         /\ UNCHANGED <<op, running, result, url, contacts>>
    ELSE WriteEnds(None, F, L)

WriteOk ==
    /\ InWrite
    /\ UrlForm(url) = "ok"
    /\ IF op = "create_sf_record"
       THEN \E kind \in CreateBodyKinds :
              WriteEnds(CreateResult(CreateBody(kind)), Frame,
                        Requested(Logs, Method, "200", Json(CreateBody(kind))))
       ELSE WriteEnds(Bool(TRUE), Frame, Requested(Logs, Method, "200", Json(EmptyBody)))
    /\ UNCHANGED <<constructed, access_token, fieldVars, served, date>>

\* variant: the bound of the loop is missed by one
WriteLastAttemptOffByOne(k) == k = max_retries

\* if n == max_retries - 1
WriteLastAttempt(k) == k = max_retries - 1

\* variant: the wait is raised to a power, as in get_or_retry
WriteBackoffPower(w, k) == w ^ (k + 1)

\* wait *= (n + 1)
WriteBackoff(w, k) == w * (k + 1)

\* except Timeout: re-raise on the last attempt, else back off and go on
WriteTimeout ==
    /\ InWrite
    /\ UrlForm(url) = "ok"
    /\ LET L == Requested(Logs, Method, "Timeout", None) IN
       IF WriteLastAttempt(n)
       THEN WriteEnds(Raised("Timeout"), Frame, L)
       ELSE LET w == WriteBackoff(wait, n) IN
            NextWrite([n |-> n, wait |-> w, counter |-> counter],
                      [L EXCEPT !.sleeps = Append(sleeps, w)])
    /\ UNCHANGED <<constructed, access_token, fieldVars, served, date>>

\* raise_for_status raises HTTPError, which no except clause names
WriteHTTPError ==
    /\ InWrite
    /\ UrlForm(url) = "ok"
    /\ \E status \in WriteStatuses :
        WriteEnds(Raised("HTTPError"), Frame, Requested(Logs, Method, status, None))
    /\ UNCHANGED <<constructed, access_token, fieldVars, served, date>>

\* requests.post / requests.patch raises on the URL; no except clause names it
WriteBadUrl ==
    /\ InWrite
    /\ UrlForm(url) # "ok"
    /\ WriteEnds(Raised(UrlForm(url)), Frame, Requested(Logs, Method, UrlForm(url), None))
    /\ UNCHANGED <<constructed, access_token, fieldVars, served, date>>

----------------------------------------------------------------------------

Next ==
    \/ Construct
    \/ CallGetOrRetry
    \/ CallQuerySingleObject
    \/ CallQueryRecentRecords
    \/ CallCreateSfRecord
    \/ CallUpdateSfRecord
    \/ GetOk
    \/ GetTimeout
    \/ GetMissingSchema
    \/ GetInvalidURL
    \/ Get401
    \/ GetHTTPError
    \/ WriteOk
    \/ WriteTimeout
    \/ WriteHTTPError
    \/ WriteBadUrl

Spec == Init /\ [][Next]_vars

\* The interpreter keeps running the method it is in: a step that is possible
\* is eventually taken.
SpecFair == Spec /\ WF_vars(Next)

----------------------------------------------------------------------------
(* _format_date on its own: a static method, applied to the strings that   *)
(* datetime.isoformat() produces for a naive local time.                   *)

Str(s) == [kind |-> "str", val |-> s]

IsoInputs ==
    { isoformat(t) :
        t \in [day : {Days[i] : i \in 1..Len(Days)},
               hh : {"00", "03", "23"},
               mm : {"04", "59"},
               ss : {"05", "59"},
               us : {"000000", "000001", "123456"}] }

FormatInit ==
    /\ date \in IsoInputs
    /\ constructed = FALSE
    /\ credentials \in CredentialsSet
    /\ credentials.domain = <<"https://", "www.test_domain.com">>
    /\ instance_url = credentials.domain
    /\ access_token = credentials.access_token
    /\ api_version = "1.0"
    /\ obj_endpoint = "obj_endpoint"
    /\ start_date = <<>>
    /\ end_date = <<>>
    /\ op = "none"
    /\ running = FALSE
    /\ url = <<>>
    /\ n = 0
    /\ wait = wait0
    /\ counter = counter0
    /\ contacts = <<>>
    /\ result = NoResult
    /\ gets = <<>>
    /\ refreshes = <<>>
    /\ sleeps = <<>>
    /\ stderr = <<>>
    /\ served = <<>>

CallFormatDate ==
    /\ op = "none"
    /\ op' = "_format_date"
    /\ result' = Str(_format_date(date))
    /\ UNCHANGED <<constructed, access_token, fieldVars, date, running, url, n,
                   wait, counter, contacts, gets, refreshes, sleeps, stderr,
                   served>>

FormatNext == CallFormatDate

SpecFormat == FormatInit /\ [][FormatNext]_vars

----------------------------------------------------------------------------
(* Properties *)

Done(name) == ~running /\ op = name
LastGet == gets[Len(gets)]
Outcomes(o) == { i \in 1..Len(gets) : gets[i].outcome = o }
LastPage == served[Len(served)]

\* the ids of the pages served so far, page after page
RECURSIVE PagesUpTo(_)
PagesUpTo(k) == IF k = 0 THEN <<>> ELSE PagesUpTo(k - 1) \o PageIds(k, served[k].size)
AllServedIds == PagesUpTo(Len(served))

\* the page fetched after page k is the one page k names
ChainOrder ==
    /\ served # <<>> => served[1].url = RecentUrl
    /\ \A k \in 1..Len(served) - 1 :
         /\ served[k].next # "absent"
         /\ served[k + 1].url = NextUrl(served[k].next, k + 1)

\* C1: a run of query_recent_records in which every page is served and the ids
\* stay within the limit returns the ids of the pages, concatenated in the order
\* the pages were fetched (the window URL first, then each nextRecordsUrl): no id
\* is dropped, duplicated or reordered, during the run and in the list returned.
C1_Concatenation ==
    /\ (running /\ op = "query_recent_records") =>
          /\ contacts = AllServedIds
          /\ ChainOrder
          /\ served # <<>> => LastPage.next # "absent"
          /\ url = IF served = <<>> THEN RecentUrl
                   ELSE NextUrl(LastPage.next, Len(served) + 1)
    /\ (Done("query_recent_records") /\ result.kind = "list") =>
          /\ Len(served) >= 1
          /\ ChainOrder
          /\ LastPage.next = "absent"
          /\ result.items = AllServedIds
    /\ (Done("query_recent_records") /\ served # <<>> /\ LastPage.next = "absent"
          /\ len(AllServedIds) <= MassUpdateLimit) =>
          result.kind = "list"

C1_Witness ==
    /\ Done("query_recent_records")
    /\ result.kind = "list"
    /\ Len(served) = 2
    /\ served[1].size = 2
    /\ served[2].size = MassUpdateLimit - 2
    /\ len(result.items) = MassUpdateLimit

\* C2: query_recent_records never returns more than 25000 ids; a run whose
\* accumulated ids exceed 25000 ends with MassUpdateException, and a run whose
\* accumulated ids are 25000 or fewer never does.
C2_MassUpdate ==
    /\ (Done("query_recent_records") /\ result.kind = "list") =>
          len(result.items) <= MassUpdateLimit
    /\ (running /\ op = "query_recent_records") => len(contacts) <= MassUpdateLimit
    /\ Done("query_recent_records") =>
          (result = Raised("MassUpdateException") <=> len(contacts) > MassUpdateLimit)

C2_Witness ==
    /\ Done("query_recent_records")
    /\ result = Raised("MassUpdateException")
    /\ Len(served) = 2
    /\ len(contacts) = MassUpdateLimit + 1

\* C2, the other side of the threshold: exactly 25000 ids are returned
C2_WitnessAtLimit ==
    /\ Done("query_recent_records")
    /\ result.kind = "list"
    /\ len(result.items) = MassUpdateLimit

\* C3: in get_or_retry every 401 response is followed by exactly one call of
\* _refresh_token, and when that refresh succeeds the stored access_token is the
\* one its response carried.
C3_RefreshOn401 ==
    op \in GetOps =>
        /\ Len(refreshes) = Cardinality(Outcomes("401"))
        /\ \A j \in 1..Len(refreshes) :
             RefreshSucceeds(refreshes[j].answer) =>
                refreshes[j].after = refreshes[j].answer.access_token
        /\ (refreshes # <<>> /\ RefreshSucceeds(refreshes[Len(refreshes)].answer)) =>
             access_token = refreshes[Len(refreshes)].answer.access_token

C3_Witness ==
    /\ Done("get_or_retry")
    /\ Len(gets) = max_retries
    /\ Outcomes("401") = 1..max_retries
    /\ Len(refreshes) = max_retries
    /\ refreshes[1].answer = [access_token |-> Token(1)]
    /\ access_token = Token(2)

\* the refresh made for the 401 at attempt i
RefreshFor(i) == refreshes[Cardinality({ j \in 1..i : gets[j].outcome = "401" })]

C5_TimeoutRetry ==
    op \in GetOps =>
        /\ Len(gets) <= max_retries
        /\ Len(sleeps) = Cardinality(Outcomes("Timeout"))
                            - (IF ~running /\ result = Raised("Timeout") THEN 1 ELSE 0)
        /\ (~running /\ op # "query_recent_records" /\ gets # <<>>
              /\ LastGet.outcome = "Timeout") =>
             /\ Len(gets) = max_retries
             /\ result = Raised("Timeout")
        /\ (Done("get_or_retry") /\ Outcomes("200") # {}) =>
             /\ Outcomes("200") = {Len(gets)}
             /\ result = LastGet.body

C5_Witness ==
    /\ Done("get_or_retry")
    /\ Outcomes("Timeout") = 1..max_retries
    /\ result = Raised("Timeout")
    /\ Len(sleeps) = max_retries - 1

\* C5, the other case: two timeouts, then the third attempt returns its body
C5_WitnessRecovered ==
    /\ Done("get_or_retry")
    /\ Outcomes("Timeout") = {1, 2}
    /\ Outcomes("200") = {3}
    /\ result.kind = "json"

\* C6: a refresh whose answer has access_token stores that token; one whose
\* answer lacks it changes nothing, raises KeyError out of the method that made
\* it (__init__, or get_or_retry in its 401 branch), and is the last request of
\* that method: no refresh and no GET follows it.
C6_RefreshOutcome ==
    /\ \A j \in 1..Len(refreshes) :
         IF RefreshSucceeds(refreshes[j].answer)
         THEN refreshes[j].after = refreshes[j].answer.access_token
         ELSE /\ refreshes[j].after = refreshes[j].before
              /\ j = Len(refreshes)
              /\ ~running
              /\ result = Raised("KeyError")
              /\ op = "__init__" => ~constructed /\ gets = <<>>
              /\ op \in GetOps =>
                    /\ LastGet.outcome = "401"
                    /\ Cardinality(Outcomes("401")) = Len(refreshes)
    /\ refreshes # <<>> => access_token = refreshes[Len(refreshes)].after

C6_Witness ==
    /\ Done("get_or_retry")
    /\ Len(refreshes) = 2
    /\ refreshes[1].answer = [access_token |-> Token(2)]
    /\ ~RefreshSucceeds(refreshes[2].answer)
    /\ access_token = Token(2)
    /\ result = Raised("KeyError")

\* C6, in the constructor: the failed refresh leaves no Connection behind
C6_WitnessInit ==
    /\ Done("__init__")
    /\ ~RefreshSucceeds(refreshes[1].answer)
    /\ access_token = credentials.access_token
    /\ result = Raised("KeyError")

\* what get_or_retry handed to query_single_object
Yielded ==
    IF gets # <<>> /\ LastGet.outcome = "200" THEN LastGet.body ELSE None

\* C7: query_single_object returns the fetched record exactly when get_or_retry
\* yielded a non-empty response with the key Id; whenever it returns without
\* that (no Id, empty response, no response) it returns None.
C7_SingleObject ==
    (Done("query_single_object") /\ result.kind # "raise") =>
        IF Yielded.kind = "json" /\ DOMAIN Yielded.body # {} /\ "Id" \in DOMAIN Yielded.body
        THEN result = Yielded
        ELSE result = None

C7_Witness ==
    /\ Done("query_single_object")
    /\ Yielded.kind = "json"
    /\ "error" \in DOMAIN Yielded.body
    /\ result = None

\* C7, the other cases: the record is returned; three 401 give None
C7_WitnessRecord ==
    /\ Done("query_single_object")
    /\ result.kind = "json"
    /\ "Id" \in DOMAIN result.body

C7_WitnessNoResponse ==
    /\ Done("query_single_object")
    /\ Outcomes("401") = 1..max_retries
    /\ result = None

\* get_or_retry has ended on a request that failed on its URL with outcome o
EndedOnUrl(o) ==
    /\ ~running
    /\ op \in {"get_or_retry", "query_single_object"}
    /\ gets # <<>>
    /\ LastGet.outcome \in o

\* None at once: one attempt, no sleep, no refresh, the token as it was
NoneAtOnce ==
    /\ result = None
    /\ Len(gets) = 1
    /\ sleeps = <<>>
    /\ refreshes = <<>>
    /\ Bearer(access_token) = LastGet.auth

\* C8 as stated: a GET that fails because its URL is malformed or has no scheme
\* makes get_or_retry return None at once.
C8_AnyBadUrl == EndedOnUrl({"MissingSchema", "InvalidURL"}) => NoneAtOnce

\* C8: a GET that fails because its URL has no scheme (MissingSchema) makes
\* get_or_retry return None at once: no error, no further attempt, no sleep, no
\* token refresh, access_token unchanged.
C8_MissingSchema == EndedOnUrl({"MissingSchema"}) => NoneAtOnce

C8_Witness ==
    /\ EndedOnUrl({"MissingSchema"})
    /\ op = "get_or_retry"
    /\ result = None

\* C9 as stated: on an HTTP error status other than 401 the body is written to
\* stderr and the HTTPError reaches the caller, without retry, sleep or refresh.
C9_ErrorSurfaced ==
    (~running /\ op \in {"get_or_retry", "query_single_object"} /\ gets # <<>>
        /\ LastGet.outcome \in ErrorStatuses) =>
        /\ result = Raised("HTTPError")
        /\ stderr = <<LastGet.body>>
        /\ Len(sleeps) = Cardinality(Outcomes("Timeout"))
        /\ Len(refreshes) = Cardinality(Outcomes("401"))

\* C10: create_sf_record and update_sf_record retry on Timeout only, make at
\* most 3 attempts and re-raise the third Timeout; an HTTP error status, 401
\* included, is raised on its attempt without retry or refresh; on success create
\* returns the success flag of the body and update returns True; neither returns
\* None.
C10_Writes ==
    op \in WriteOps =>
        /\ Len(gets) <= max_retries
        /\ refreshes = <<>>
        /\ \A i \in 1..Len(gets) :
             /\ gets[i].auth = Bearer(access_token)
             /\ i < Len(gets) => gets[i].outcome = "Timeout"
        /\ running => n = Len(gets) /\ n < max_retries
        /\ ~running =>
             /\ result.kind # "None"
             /\ gets # <<>>
             /\ LastGet.outcome = "Timeout" =>
                   Len(gets) = max_retries /\ result = Raised("Timeout")
             /\ LastGet.outcome \in WriteStatuses => result = Raised("HTTPError")
             /\ (LastGet.outcome = "200" /\ op = "update_sf_record") =>
                   result = Bool(TRUE)
             /\ (LastGet.outcome = "200" /\ op = "create_sf_record"
                   /\ "success" \in DOMAIN LastGet.body.body) =>
                   result = Bool(LastGet.body.body.success)

C10_Witness ==
    /\ Done("create_sf_record")
    /\ Outcomes("Timeout") = 1..max_retries
    /\ result = Raised("Timeout")
    /\ Len(sleeps) = max_retries - 1

\* C10, the other cases: a 401 on the second attempt of an update; a create
\* refused by the server after a timeout
C10_Witness401 ==
    /\ Done("update_sf_record")
    /\ Len(gets) = 2
    /\ LastGet.outcome = "401"
    /\ result = Raised("HTTPError")

C10_WitnessFlag ==
    /\ Done("create_sf_record")
    /\ Len(gets) = 2
    /\ LastGet.outcome = "200"
    /\ result = Bool(FALSE)

\* the calendar day a formatted date starts with, as an index of Days
DayOf(d) == CHOOSE i \in 1..Len(Days) : Days[i] = d[1]

\* two formatted dates exactly 24 hours apart: the day before, the same time
OneDayApart(s, e) ==
    /\ Len(s) = Len(e)
    /\ DayOf(s) + 1 = DayOf(e)
    /\ \A i \in 2..Len(e) : s[i] = e[i]

\* C11: __init__ makes exactly one token refresh, then computes the date range:
\* a constructed Connection holds the token that refresh returned, not
\* credentials['access_token'], and a start_date exactly 24 hours before its
\* end_date; when the refresh fails __init__ raises, and nothing is ever done
\* with a Connection whose token is unrefreshed or whose date range is missing.
C11_Construction ==
    /\ op = "__init__" =>
          /\ ~running
          /\ Len(refreshes) = 1
          /\ refreshes[1].before = credentials.access_token
          /\ gets = <<>>
          /\ constructed <=> RefreshSucceeds(refreshes[1].answer)
          /\ constructed => access_token = refreshes[1].answer.access_token
          /\ ~constructed => result = Raised("KeyError")
    /\ constructed =>
          /\ access_token \in ServerTokens
          /\ access_token # credentials.access_token
          /\ start_date # <<>>
          /\ end_date # <<>>
          /\ OneDayApart(start_date, end_date)
    /\ ~constructed =>
          /\ op \in {"none", "__init__"}
          /\ ~running
          /\ access_token = credentials.access_token
          /\ start_date = <<>>
          /\ end_date = <<>>

C11_Witness ==
    /\ Done("__init__")
    /\ constructed
    /\ access_token = Token(2)
    /\ start_date = <<"2016-01-02", "T", "04", "%3A", "05", "%3A", "06", "Z">>
    /\ end_date = <<"2016-01-03", "T", "04", "%3A", "05", "%3A", "06", "Z">>

\* where the fraction of a timestamp starts: its first '.', or just past its end
FirstDot(s) ==
    IF \E i \in 1..Len(s) : s[i] = "."
       THEN CHOOSE i \in 1..Len(s) :
                /\ s[i] = "."
                /\ \A j \in 1..(i - 1) : s[j] # "."
       ELSE Len(s) + 1

\* C12: _format_date gives the timestamp up to its first '.' (all of it when
\* it has no fraction), every ':' replaced by '%3A', followed by 'Z':
\* 2016-01-02T03:04:05 gives 2016-01-02T03%3A04%3A05Z, and the result holds
\* no raw ':' and no '.'.
C12_FormatDate ==
    op = "_format_date" =>
        LET r == result.val
            k == FirstDot(date)
        IN  /\ result.kind = "str"
            /\ Len(r) = k
            /\ r[k] = "Z"
            /\ \A i \in 1..(k - 1) :
                   r[i] = IF date[i] = ":" THEN "%3A" ELSE date[i]
            /\ \A i \in 1..Len(r) : r[i] \notin {":", "."}
            /\ date = <<"2016-01-02", "T", "03", ":", "04", ":", "05">> =>
                   r = <<"2016-01-02", "T", "03", "%3A", "04", "%3A", "05", "Z">>

C12_Witness ==
    /\ op = "_format_date"
    /\ date = <<"2016-01-02", "T", "03", ":", "04", ":", "05", ".", "123456">>
    /\ result = Str(<<"2016-01-02", "T", "03", "%3A", "04", "%3A", "05", "Z">>)

C12_WitnessWhole ==
    /\ op = "_format_date"
    /\ date = <<"2016-01-02", "T", "03", ":", "04", ":", "05">>
    /\ result = Str(<<"2016-01-02", "T", "03", "%3A", "04", "%3A", "05", "Z">>)

\* C13: every call of query_recent_records eventually returns a list or
\* raises; a page fetch that yields no data (None from get_or_retry, or an
\* empty body) does not make the loop fetch the same URL again for ever.
C13_Terminates ==
    (running /\ op = "query_recent_records") ~> Done("query_recent_records")

\* the wait the i-th sleep of a retry loop started from
WaitBefore(i) == IF i = 1 THEN wait0 ELSE sleeps[i - 1]

\* C14 as stated: in get_or_retry each wait is the previous one multiplied by
\* the attempt count, from 10: the first sleep is 10 and the second is 20.
C14_MultiplyBackoff ==
    op \in GetOps =>
        /\ \A i \in 1..Len(sleeps) : sleeps[i] = WaitBefore(i) * i
        /\ Len(sleeps) >= 1 => sleeps[1] = 10
        /\ Len(sleeps) >= 2 => sleeps[2] = 20

\* C14, amended: in get_or_retry each wait is the previous one raised to the
\* number of timeouts so far, from 10: the first sleep is 10 and the second is
\* 100; a 401 between two timeouts does not count.
C14_PowerBackoff ==
    op \in GetOps =>
        /\ Len(sleeps) <= max_retries - 1
        /\ \A i \in 1..Len(sleeps) : sleeps[i] = WaitBefore(i) ^ i
        /\ Len(sleeps) >= 1 => sleeps[1] = 10
        /\ Len(sleeps) >= 2 => sleeps[2] = 100
        /\ wait = WaitBefore(Len(sleeps) + 1)
        /\ counter = counter0 + Len(sleeps)

C14_Witness ==
    /\ Done("get_or_retry")
    /\ Outcomes("Timeout") = {1, 2, 3}
    /\ sleeps = <<10, 100>>
    /\ result = Raised("Timeout")

\* C14, a 401 first: the timeout of the second attempt is slept on for 10
C14_WitnessAfter401 ==
    /\ Done("get_or_retry")
    /\ Outcomes("401") = {1}
    /\ Outcomes("Timeout") = {2}
    /\ Outcomes("200") = {3}
    /\ sleeps = <<10>>

\* C15: the write methods multiply the wait by (attempt index + 1) before each
\* sleep, from 10: they sleep 10, then 20, at most 30 in all; get_or_retry
\* raises the wait to a power that grows by one per timeout; after two timeouts
\* the sleeps of a write are <<10, 20>> and those of a read are not.
C15_BackoffFormulas ==
    /\ op \in WriteOps =>
          /\ sleeps \in {<<>>, <<10>>, <<10, 20>>}
          /\ \A i \in 1..Len(sleeps) : sleeps[i] = WaitBefore(i) * ((i - 1) + 1)
          /\ Len(sleeps) <= max_retries - 1
          /\ (IF Len(sleeps) >= 1 THEN sleeps[1] ELSE 0)
               + (IF Len(sleeps) >= 2 THEN sleeps[2] ELSE 0) <= 30
    /\ op \in GetOps =>
          \A i \in 1..Len(sleeps) : sleeps[i] = WaitBefore(i) ^ i
    /\ Len(sleeps) = 2 => (sleeps = <<10, 20>> <=> op \in WriteOps)

C15_Witness ==
    /\ Done("update_sf_record")
    /\ sleeps = <<10, 20>>
    /\ result = Bool(TRUE)

C15_WitnessRead ==
    /\ Done("query_single_object")
    /\ sleeps = <<10, 100>>
    /\ Outcomes("200") = {3}

\* C16: query_recent_records compares the count with 25000 only when all ids
\* of a fetched page are appended: at the raise of MassUpdateException the
\* accumulator holds every id of every page served, it went over the limit with
\* the last page only, that page's nextRecordsUrl is not followed, and the GET
\* of that page is the last request made.
C16_ThresholdAfterPage ==
    op = "query_recent_records" =>
        /\ contacts = AllServedIds
        /\ len(contacts) > MassUpdateLimit =>
              /\ ~running
              /\ result = Raised("MassUpdateException")
              /\ len(contacts) - LastPage.size <= MassUpdateLimit
              /\ url = LastPage.url
              /\ LastGet.outcome = "200"
              /\ LastGet.url = LastPage.url
              /\ LastGet.body =
                     Json(PageBody(Len(served), LastPage.size, LastPage.next))

C16_Witness ==
    /\ Done("query_recent_records")
    /\ result = Raised("MassUpdateException")
    /\ Len(served) = 1
    /\ LastPage.size = MassUpdateLimit + 1
    /\ LastPage.next = "absolute"
    /\ url = RecentUrl

\* C16, a whole page over: 25000 ids, then a page of 25001
C16_WitnessWholePage ==
    /\ Done("query_recent_records")
    /\ result = Raised("MassUpdateException")
    /\ Len(served) = 2
    /\ len(contacts) = 2 * MassUpdateLimit + 1

\* the GET whose 401 made the j-th refresh of a get_or_retry call
The401(j) ==
    CHOOSE i \in 1..Len(gets) :
        /\ gets[i].outcome = "401"
        /\ Cardinality({ k \in 1..i : gets[k].outcome = "401" }) = j

\* what follows credentials['refresh_token'] in a password field
TokenSent(password) ==
    SubSeq(password, Len(credentials.refresh_token) + 1, Len(password))

\* C17: the password of every refresh is credentials['refresh_token'] followed
\* by the access_token stored at that moment: credentials['access_token'] in
\* __init__; afterwards the token of the latest successful refresh, which is
\* the one the rejected GET was sent with, and never the original one.
C17_RefreshPassword ==
    /\ \A j \in 1..Len(refreshes) :
          /\ refreshes[j].password =
                 credentials.refresh_token \o TokenSent(refreshes[j].password)
          /\ j > 1 =>
                 /\ RefreshSucceeds(refreshes[j - 1].answer)
                 /\ TokenSent(refreshes[j].password) = refreshes[j - 1].answer.access_token
          /\ j = Len(refreshes) /\ RefreshSucceeds(refreshes[j].answer) =>
                 access_token = refreshes[j].answer.access_token
    /\ op = "__init__" =>
          /\ Len(refreshes) = 1
          /\ refreshes[1].password = <<"password">> \o credentials.access_token
    /\ op \in GetOps =>
          \A j \in 1..Len(refreshes) :
              /\ Bearer(TokenSent(refreshes[j].password)) = gets[The401(j)].auth
              /\ TokenSent(refreshes[j].password) \in ServerTokens
              /\ TokenSent(refreshes[j].password) # credentials.access_token
    /\ op \in WriteOps => refreshes = <<>>

C17_Witness ==
    /\ Done("get_or_retry")
    /\ Outcomes("401") = {1, 2}
    /\ Outcomes("200") = {3}
    /\ refreshes[1].password = <<"password">> \o Token(2)
    /\ refreshes[1].answer = [access_token |-> Token(1)]
    /\ refreshes[2].password = <<"password">> \o Token(1)

C17_WitnessInit ==
    /\ Done("__init__")
    /\ constructed
    /\ refreshes[1].password = <<"password">> \o Token(0)

\* a get_or_retry call that has used all its attempts and whose last GET ended in o
Exhausted(o) ==
    /\ Done("get_or_retry")
    /\ Len(gets) = max_retries
    /\ LastGet.outcome = o

\* timeouts and 401s share the attempts of one call
SharedBudget ==
    /\ Len(gets) <= max_retries
    /\ Len(refreshes) <= max_retries
    /\ Len(refreshes) = Cardinality(Outcomes("401"))
    /\ Cardinality(Outcomes("401")) + Cardinality(Outcomes("Timeout")) <= max_retries
    /\ running => n = Len(gets) /\ n < max_retries

\* C18 as stated: a get_or_retry call makes at most 3 GETs and at most 3
\* refreshes, timeouts and 401s sharing the 3 attempts; with the attempts used
\* up it returns None when the last ended in 401 and raises Timeout when the
\* last ended in a timeout.
C18_AttemptBudget ==
    op \in GetOps =>
        /\ SharedBudget
        /\ Exhausted("401") => result = None
        /\ Exhausted("Timeout") => result = Raised("Timeout")

\* C18, amended: with the attempts used up and the last ended in 401, the call
\* returns None when the refresh after that 401 succeeded and raises KeyError
\* when it did not.
C18_AttemptBudgetOrKeyError ==
    op \in GetOps =>
        /\ SharedBudget
        /\ Exhausted("401") =>
              result = IF RefreshSucceeds(refreshes[Len(refreshes)].answer)
                       THEN None
                       ELSE Raised("KeyError")
        /\ Exhausted("Timeout") => result = Raised("Timeout")

C18_Witness ==
    /\ Exhausted("401")
    /\ Outcomes("401") = {1, 2, 3}
    /\ Len(refreshes) = max_retries
    /\ result = None

\* C18, a mix: a timeout and two 401s use the three attempts up
C18_WitnessMixed ==
    /\ Exhausted("401")
    /\ Outcomes("Timeout") = {1}
    /\ Outcomes("401") = {2, 3}
    /\ sleeps = <<10>>
    /\ result = None

C18_WitnessTimeout ==
    /\ Exhausted("Timeout")
    /\ Outcomes("401") = {1, 2}
    /\ result = Raised("Timeout")

\* this step ran _refresh_token, the answer had access_token, and that token is
\* the one now stored
RefreshedInStep ==
    \/ /\ op' = "__init__"
       /\ ~constructed
       /\ RefreshSucceeds(refreshes'[1].answer)
       /\ access_token' = refreshes'[1].answer.access_token
    \/ /\ running /\ op \in GetOps
       /\ Len(refreshes') = Len(refreshes) + 1
       /\ gets'[Len(gets')].outcome = "401"
       /\ RefreshSucceeds(refreshes'[Len(refreshes')].answer)
       /\ access_token' = refreshes'[Len(refreshes')].answer.access_token
    \* the third 401 of a page fetch: get_or_retry returns None and
    \* query_recent_records starts the fetch again
    \/ /\ running /\ op = "query_recent_records"
       /\ running' /\ url' = url
       /\ n = max_retries - 1
       /\ gets' = <<>>
       /\ access_token' \in ServerTokens

\* this step made a request that did not end in 401
OtherRequestInStep ==
    /\ gets' # <<>>
    /\ gets' # gets
    /\ gets'[Len(gets')].outcome # "401"

C19_Step ==
    /\ access_token' # access_token => RefreshedInStep
    /\ OtherRequestInStep => access_token' = access_token
    /\ op' \in WriteOps => access_token' = access_token
    /\ credentials' = credentials
    /\ instance_url' = instance_url
    /\ api_version' = api_version
    /\ obj_endpoint' = obj_endpoint
    /\ (constructed \/ ~constructed') =>
          /\ start_date' = start_date
          /\ end_date' = end_date
    /\ constructed => constructed'

\* C19: access_token changes only in a step that makes a successful token
\* refresh; a request that ends in a timeout, a bad URL, another HTTP error or
\* a success, and every step of create_sf_record and update_sf_record, leave
\* it as it was; credentials, api_version and obj_endpoint never change, and
\* start_date and end_date are set by _get_date_range in __init__ only.
C19_Frame == [][C19_Step]_vars

C19_Witness ==
    /\ Done("get_or_retry")
    /\ Outcomes("Timeout") = {1}
    /\ Outcomes("401") = {2}
    /\ Outcomes("200") = {3}
    /\ gets[1].auth = gets[2].auth
    /\ gets[3].auth # gets[2].auth
    /\ gets[3].auth = Bearer(access_token)

\* C19, a write after a refresh: the token of the refresh is still the one sent
C19_WitnessWrite ==
    /\ Done("update_sf_record")
    /\ access_token = Token(2)
    /\ credentials.access_token = Token(0)
    /\ Outcomes("Timeout") = {1}
    /\ Outcomes("200") = {2}
    /\ gets[2].auth = Bearer(Token(2))

\* this step starts a retry loop: a public method is called, or
\* query_recent_records goes on to the page after the one just served
LoopStarts ==
    /\ running'
    /\ \/ ~running
       \/ op = "query_recent_records" /\ Len(served') > Len(served)

C20_Step ==
    /\ LoopStarts =>
          /\ n' = 0
          /\ wait' = wait0
          /\ counter' = counter0
          /\ gets' = <<>>
          /\ sleeps' = <<>>
    /\ running' =>
          /\ n' = Len(gets')
          /\ n' < max_retries
          /\ wait' = (IF sleeps' = <<>> THEN wait0 ELSE sleeps'[Len(sleeps')])
          /\ sleeps' # <<>> => sleeps'[1] = wait0

\* C20: the retry state is local to a call: every call of a public method and
\* every page fetch of query_recent_records starts with no attempt used and a
\* wait of 10, whatever the attempts and waits of the call or fetch before it;
\* while a call runs, its attempt number is the number of requests it has made
\* itself and its first sleep is 10.
C20_LocalRetryState == [][C20_Step]_vars

\* a second page fetched with three attempts of its own, the first page
\* having used at least one: four requests or more in one run
C20_Witness ==
    /\ Done("query_recent_records")
    /\ Len(served) = 2
    /\ Outcomes("Timeout") = {1, 2}
    /\ Outcomes("200") = {3}
    /\ sleeps = <<10, 100>>
    /\ result.kind = "list"

\* C20, a write call at its second attempt: its first sleep was 10
C20_WitnessNextCall ==
    /\ running
    /\ op = "create_sf_record"
    /\ n = 1
    /\ wait = 10
    /\ sleeps = <<10>>

====
